---- MODULE Spec2Model ----
(***************************************************************************)
(* Model of the discovery-document generator                               *)
(* TMF673_GeographicAddress/utils/entrypoint.js: the handler entrypoint,   *)
(* its helpers cleanPath and stripTrailingSlash, and the JavaScript object *)
(* semantics the handler relies on (truthiness, optional chaining, own and *)
(* inherited properties, property order, JSON.stringify).                  *)
(*                                                                         *)
(* A JavaScript string is a sequence of one-character strings.  A          *)
(* JavaScript value is a record [type, val]; an object's val is the        *)
(* sequence of its own enumerable properties <<key, value>> in the order   *)
(* that for..in and JSON.stringify visit them.                             *)
(***************************************************************************)
EXTENDS Naturals, Sequences, FiniteSets, TLC

VARIABLES
    swaggerDoc,     \* the document held by the specification loader
    loaderRaises,   \* TRUE when getSwaggerDoc() throws
    env,            \* process.env: COMPONENT_NAME and RELEASE_NAME
    req,            \* the request object handed to the handler
    res,            \* the response object of the current request
    logged,         \* reports received by logger.error, oldest first
    frame,          \* locals of the last activation of entrypoint
    served,         \* number of requests handled so far
    history         \* what was answered to which input, over all requests

vars == <<swaggerDoc, loaderRaises, env, req, res, logged, frame, served, history>>

----------------------------------------------------------------------------
\* Bounds of the model

\* longest servers[0].url, in characters
MaxUrlLen == 3

\* most keys in info
MaxInfoKeys == 2

\* most path keys in paths
MaxPaths == 2

\* most method keys under one path
MaxMethods == 2

\* most tags of one operation
MaxTags == 2

\* requests served in one behaviour
MaxRequests == 2

----------------------------------------------------------------------------
\* String literals of the source, as character sequences

\* 'servers'
K_servers ==
    <<"s", "e", "r", "v", "e", "r", "s">>

\* 'url'
K_url ==
    <<"u", "r", "l">>

\* 'basePath'
K_basePath ==
    <<"b", "a", "s", "e", "P", "a", "t", "h">>

\* 'info'
K_info ==
    <<"i", "n", "f", "o">>

\* 'paths'
K_paths ==
    <<"p", "a", "t", "h", "s">>

\* 'self'
K_self ==
    <<"s", "e", "l", "f">>

\* 'href'
K_href ==
    <<"h", "r", "e", "f">>

\* 'id'
K_id ==
    <<"i", "d">>

\* 'name'
K_name ==
    <<"n", "a", "m", "e">>

\* 'status'
K_status ==
    <<"s", "t", "a", "t", "u", "s">>

\* 'version'
K_version ==
    <<"v", "e", "r", "s", "i", "o", "n">>

\* 'title'
K_title ==
    <<"t", "i", "t", "l", "e">>

\* 'description'
K_description ==
    <<"d", "e", "s", "c", "r", "i", "p", "t", "i", "o", "n">>

\* 'swagger-ui'
K_swagger_ui ==
    <<"s", "w", "a", "g", "g", "e", "r", "-", "u", "i">>

\* 'openapi'
K_openapi ==
    <<"o", "p", "e", "n", "a", "p", "i">>

\* 'method'
K_method ==
    <<"m", "e", "t", "h", "o", "d">>

\* 'operationId'
K_operationId ==
    <<"o", "p", "e", "r", "a", "t", "i", "o", "n", "I", "d">>

\* 'summary'
K_summary ==
    <<"s", "u", "m", "m", "a", "r", "y">>

\* 'tags'
K_tags ==
    <<"t", "a", "g", "s">>

\* '_links'
K_links ==
    <<"_", "l", "i", "n", "k", "s">>

\* 'error'
K_error ==
    <<"e", "r", "r", "o", "r">>

\* 'message'
K_message ==
    <<"m", "e", "s", "s", "a", "g", "e">>

\* '__proto__'
K_proto ==
    <<"_", "_", "p", "r", "o", "t", "o", "_", "_">>

\* '/tmf-api/geographicAddressManagement/v4'
DefaultBasePath ==
    <<"/", "t", "m", "f", "-", "a", "p", "i", "/", "g", "e", "o", "g", "r", "a", "p", "h", "i", "c", "A", "d", "d", "r", "e", "s", "s", "M", "a", "n", "a", "g", "e", "m", "e", "n", "t", "/", "v", "4">>

\* 'geographicaddress'
DefaultComponentName ==
    <<"g", "e", "o", "g", "r", "a", "p", "h", "i", "c", "a", "d", "d", "r", "e", "s", "s">>

\* 'tmf673'
DefaultReleaseName ==
    <<"t", "m", "f", "6", "7", "3">>

\* '4.0.1'
DefaultVersion ==
    <<"4", ".", "0", ".", "1">>

\* 'Geographic Address Management API'
DefaultTitle ==
    <<"G", "e", "o", "g", "r", "a", "p", "h", "i", "c", " ", "A", "d", "d", "r", "e", "s", "s", " ", "M", "a", "n", "a", "g", "e", "m", "e", "n", "t", " ", "A", "P", "I">>

\* 'running'
S_running ==
    <<"r", "u", "n", "n", "i", "n", "g">>

\* '/api-docs'
S_api_docs ==
    <<"/", "a", "p", "i", "-", "d", "o", "c", "s">>

\* '/openapi'
S_openapi ==
    <<"/", "o", "p", "e", "n", "a", "p", "i">>

\* 'Internal Server Error'
S_InternalServerError ==
    <<"I", "n", "t", "e", "r", "n", "a", "l", " ", "S", "e", "r", "v", "e", "r", " ", "E", "r", "r", "o", "r">>

\* 'Unable to generate entrypoint response'
S_Unable ==
    <<"U", "n", "a", "b", "l", "e", " ", "t", "o", " ", "g", "e", "n", "e", "r", "a", "t", "e", " ", "e", "n", "t", "r", "y", "p", "o", "i", "n", "t", " ", "r", "e", "s", "p", "o", "n", "s", "e">>

\* 'Entrypoint error'
S_EntrypointError ==
    <<"E", "n", "t", "r", "y", "p", "o", "i", "n", "t", " ", "e", "r", "r", "o", "r">>

\* 'application/json'
S_applicationJson ==
    <<"a", "p", "p", "l", "i", "c", "a", "t", "i", "o", "n", "/", "j", "s", "o", "n">>

\* The property names every ordinary object inherits from Object.prototype
ObjectPrototypeKeys ==
    { <<"c", "o", "n", "s", "t", "r", "u", "c", "t", "o", "r">>,
      <<"_", "_", "d", "e", "f", "i", "n", "e", "G", "e", "t", "t", "e", "r", "_", "_">>,
      <<"_", "_", "d", "e", "f", "i", "n", "e", "S", "e", "t", "t", "e", "r", "_", "_">>,
      <<"h", "a", "s", "O", "w", "n", "P", "r", "o", "p", "e", "r", "t", "y">>,
      <<"_", "_", "l", "o", "o", "k", "u", "p", "G", "e", "t", "t", "e", "r", "_", "_">>,
      <<"_", "_", "l", "o", "o", "k", "u", "p", "S", "e", "t", "t", "e", "r", "_", "_">>,
      <<"i", "s", "P", "r", "o", "t", "o", "t", "y", "p", "e", "O", "f">>,
      <<"p", "r", "o", "p", "e", "r", "t", "y", "I", "s", "E", "n", "u", "m", "e", "r", "a", "b", "l", "e">>,
      <<"t", "o", "S", "t", "r", "i", "n", "g">>,
      <<"v", "a", "l", "u", "e", "O", "f">>,
      <<"_", "_", "p", "r", "o", "t", "o", "_", "_">>,
      <<"t", "o", "L", "o", "c", "a", "l", "e", "S", "t", "r", "i", "n", "g">> }

LowerChars ==
    {"a", "b", "c", "d", "e", "f", "g", "h", "i", "j", "k", "l", "m", "n", "o", "p", "q", "r", "s", "t", "u", "v", "w", "x", "y", "z"}

\* String.prototype.toUpperCase on one character (ASCII letters)
UpperOf(c) ==
    CASE c = "a" -> "A"
      [] c = "b" -> "B"
      [] c = "c" -> "C"
      [] c = "d" -> "D"
      [] c = "e" -> "E"
      [] c = "f" -> "F"
      [] c = "g" -> "G"
      [] c = "h" -> "H"
      [] c = "i" -> "I"
      [] c = "j" -> "J"
      [] c = "k" -> "K"
      [] c = "l" -> "L"
      [] c = "m" -> "M"
      [] c = "n" -> "N"
      [] c = "o" -> "O"
      [] c = "p" -> "P"
      [] c = "q" -> "Q"
      [] c = "r" -> "R"
      [] c = "s" -> "S"
      [] c = "t" -> "T"
      [] c = "u" -> "U"
      [] c = "v" -> "V"
      [] c = "w" -> "W"
      [] c = "x" -> "X"
      [] c = "y" -> "Y"
      [] c = "z" -> "Z"
      [] OTHER -> c

Digits ==
    {"0", "1", "2", "3", "4", "5", "6", "7", "8", "9"}

DigitVal(c) ==
    CASE c = "0" -> 0
      [] c = "1" -> 1
      [] c = "2" -> 2
      [] c = "3" -> 3
      [] c = "4" -> 4
      [] c = "5" -> 5
      [] c = "6" -> 6
      [] c = "7" -> 7
      [] c = "8" -> 8
      [] c = "9" -> 9

----------------------------------------------------------------------------
\* JavaScript values

Undefined ==
    [type |-> "undefined", val |-> <<>>]

Null ==
    [type |-> "null", val |-> <<>>]

Str(s) ==
    [type |-> "string", val |-> s]

Arr(items) ==
    [type |-> "array", val |-> items]

Obj(props) ==
    [type |-> "object", val |-> props]

\* The value read for a name inherited from Object.prototype (a function, or
\* Object.prototype itself for __proto__): an object, hence truthy.
Inherited(k) ==
    [type |-> "function", val |-> k]

IsNullish(v) ==
    v.type \in {"undefined", "null"}

\* ToBoolean: undefined, null and '' are falsy; objects, arrays, functions
\* and non-empty strings are truthy.
Truthy(v) ==
    CASE v.type \in {"undefined", "null"} -> FALSE
      [] v.type = "string" -> v.val # <<>>
      [] OTHER -> TRUE

\* a || b
Or(a, b) ==
    IF Truthy(a) THEN a ELSE b

HasOwn(o, k) ==
    \E i \in 1..Len(o.val) : o.val[i][1] = k

OwnIndex(o, k) ==
    CHOOSE i \in 1..Len(o.val) : o.val[i][1] = k

\* o[k] on an ordinary object: the own property, else the property
\* inherited from Object.prototype, else undefined.
Get(o, k) ==
    IF HasOwn(o, k) THEN o.val[OwnIndex(o, k)][2]
    ELSE IF k \in ObjectPrototypeKeys THEN Inherited(k)
    ELSE Undefined

\* v.k on any value that is not null or undefined (strings and arrays have
\* none of the property names the handler reads, except length).
GetProp(v, k) ==
    IF v.type = "object" THEN Get(v, k) ELSE Undefined

\* v?.k
OptGet(v, k) ==
    IF IsNullish(v) THEN Undefined ELSE GetProp(v, k)

\* A faulty variant that reads the last entry of a sequence (v?.[v.length - 1])
OptIndexLast(v) ==
    IF IsNullish(v) THEN Undefined
    ELSE IF v.type = "array"
         THEN IF Len(v.val) > 0 THEN v.val[Len(v.val)] ELSE Undefined
    ELSE IF v.type = "object" THEN Get(v, <<"0">>)
    ELSE Undefined

\* v?.[0]
OptIndex0(v) ==
    IF IsNullish(v) THEN Undefined
    ELSE IF v.type = "array"
         THEN IF Len(v.val) > 0 THEN v.val[1] ELSE Undefined
    ELSE IF v.type = "object" THEN Get(v, <<"0">>)
    ELSE Undefined

\* A canonical array index ('0', '7', '12', never '01'): such keys are
\* enumerated first, in ascending numeric order, before all other keys.
IsArrayIndex(k) ==
    /\ Len(k) > 0
    /\ \A i \in 1..Len(k) : k[i] \in Digits
    /\ (Len(k) = 1 \/ k[1] # "0")

RECURSIVE NumVal(_)
NumVal(k) ==
    IF k = <<>> THEN 0
    ELSE 10 * NumVal(SubSeq(k, 1, Len(k) - 1)) + DigitVal(k[Len(k)])

\* Where a new own property k goes in the property order of o.
InsertAt(o, k) ==
    IF IsArrayIndex(k)
    THEN Cardinality({i \in 1..Len(o.val) :
                        /\ IsArrayIndex(o.val[i][1])
                        /\ NumVal(o.val[i][1]) < NumVal(k)}) + 1
    ELSE Len(o.val) + 1

\* o[k] = v on an ordinary object.  Assigning to __proto__ runs the setter
\* inherited from Object.prototype: it changes the prototype of o (when v is
\* an object) and creates no own property.  Any other key overwrites the own
\* property in place or creates it at its place in the property order.
Put(o, k, v) ==
    IF HasOwn(o, k)
    THEN Obj([o.val EXCEPT ![OwnIndex(o, k)] = <<k, v>>])
    ELSE IF k = K_proto THEN o
    ELSE LET at == InsertAt(o, k)
         IN  Obj(SubSeq(o.val, 1, at - 1) \o << <<k, v>> >>
                 \o SubSeq(o.val, at, Len(o.val)))

\* JSON.stringify, up to the injective rendering as text: the tree of own
\* enumerable properties in property order, without the properties whose
\* value is undefined or a function.
RECURSIVE JSONstringify(_)
JSONstringify(v) ==
    IF v.type = "object"
    THEN LET Kept(p) == p[2].type \notin {"undefined", "function"}
             kept == SelectSeq(v.val, Kept)
         IN  Obj([i \in 1..Len(kept) |->
                    <<kept[i][1], JSONstringify(kept[i][2])>>])
    ELSE v

\* A faulty variant of toUpperCase that leaves the string as it is
toUpperCaseOmitted(s) ==
    s

\* String.prototype.toUpperCase
toUpperCase(s) ==
    [i \in 1..Len(s) |-> UpperOf(s[i])]

----------------------------------------------------------------------------
\* Helpers of entrypoint.js

\* cleanPath = (path) => path.replace(/\/\//g, '/'): one left-to-right pass
\* that replaces each non-overlapping '//' by '/'.
RECURSIVE cleanPath(_)
cleanPath(path) ==
    IF Len(path) < 2 THEN path
    ELSE IF path[1] = "/" /\ path[2] = "/"
         THEN <<"/">> \o cleanPath(SubSeq(path, 3, Len(path)))
         ELSE <<path[1]>> \o cleanPath(Tail(path))

\* str.replace(/\/$/, ''): removes one '/' at the end of the string
ReplaceTrailingSlash(s) ==
    IF Len(s) > 0 /\ s[Len(s)] = "/" THEN SubSeq(s, 1, Len(s) - 1) ELSE s

\* stripTrailingSlash(str) = str?.replace(/\/$/,'') || str
stripTrailingSlash(str) ==
    IF IsNullish(str) THEN str
    ELSE Or(Str(ReplaceTrailingSlash(str.val)), str)

----------------------------------------------------------------------------
\* entrypoint(req, res)

\* 'Content-Type'
K_ContentType ==
    <<"C", "o", "n", "t", "e", "n", "t", "-", "T", "y", "p", "e">>

\* The outcome of evaluating an expression: a value, or a thrown error.
Returned(v) ==
    [threw |-> FALSE, value |-> v, error |-> "none"]

Thrown(e) ==
    [threw |-> TRUE, value |-> Undefined, error |-> e]

\* const swaggerDoc = getSwaggerDoc(): the loader hands out the document it
\* holds (possibly null, undefined or partial), or raises.
getSwaggerDoc ==
    IF loaderRaises THEN Thrown("LoaderError") ELSE Returned(swaggerDoc)

\* A faulty variant of the base-path resolution, in which servers[0].url is
\* read with plain member accesses (swaggerDoc.servers[0].url) and throws a
\* TypeError when servers is missing or empty.
ResolveBasePathUnchained(doc) ==
    IF IsNullish(doc) \/ IsNullish(GetProp(doc, K_servers))
          \/ IsNullish(OptIndex0(GetProp(doc, K_servers)))
    THEN Thrown("TypeError")
    ELSE Returned(Or(Or(GetProp(OptIndex0(GetProp(doc, K_servers)), K_url),
                        GetProp(doc, K_basePath)),
                     Str(DefaultBasePath)))

\* const basePath = swaggerDoc?.servers?.[0]?.url || swaggerDoc.basePath
\*                  || '/tmf-api/geographicAddressManagement/v4'
\* The second operand is a plain member access: it throws a TypeError when
\* swaggerDoc is null or undefined.
ResolveBasePath(doc) ==
    LET url == OptGet(OptIndex0(OptGet(doc, K_servers)), K_url)
    IN  IF Truthy(url) THEN Returned(url)
        ELSE IF IsNullish(doc) THEN Thrown("TypeError")
        ELSE Returned(Or(GetProp(doc, K_basePath), Str(DefaultBasePath)))

\* A faulty variant in which the component name is taken from the request
\* (req.url) when the request is not for the root
componentNameFromRequest(e) ==
    IF req.url = Str(<<"/">>)
    THEN Or(e.COMPONENT_NAME, Str(DefaultComponentName))
    ELSE req.url

\* const componentName = process.env.COMPONENT_NAME || 'geographicaddress'
componentName(e) ==
    Or(e.COMPONENT_NAME, Str(DefaultComponentName))

\* const releaseName = process.env.RELEASE_NAME || 'tmf673'
releaseName(e) ==
    Or(e.RELEASE_NAME, Str(DefaultReleaseName))

\* The object literal assigned to linksObject.self
SelfExplicit(doc, basePath, e) ==
    LET info == OptGet(doc, K_info)
    IN  Obj(<< <<K_href, basePath>>,
               <<K_id, releaseName(e)>>,
               <<K_name, componentName(e)>>,
               <<K_status, Str(S_running)>>,
               <<K_version, Or(OptGet(info, K_version), Str(DefaultVersion))>>,
               <<K_title, Or(OptGet(info, K_title), Str(DefaultTitle))>>,
               <<K_description, Or(OptGet(info, K_description), Str(<<>>))>>,
               <<K_swagger_ui, Str(cleanPath(basePath.val \o S_api_docs))>>,
               <<K_openapi, Str(cleanPath(basePath.val \o S_openapi))>> >>)

\* for (const infoKey in swaggerDoc.info)
\*     if (!linksObject.self[infoKey])
\*         linksObject.self[infoKey] = swaggerDoc.info[infoKey];
\* from the i-th key of info on.
RECURSIVE MergeInfoFrom(_, _, _)
MergeInfoFrom(self, info, i) ==
    IF i > Len(info.val) THEN self
    ELSE LET infoKey == info.val[i][1]
             next == IF ~Truthy(Get(self, infoKey))
                     THEN Put(self, infoKey, Get(info, infoKey))
                     ELSE self
         IN  MergeInfoFrom(next, info, i + 1)

\* if (swaggerDoc?.info) { ... }: info is an object, null or undefined
MergeInfo(self, doc) ==
    LET info == OptGet(doc, K_info)
    IN  IF Truthy(info) /\ info.type = "object"
        THEN MergeInfoFrom(self, info, 1)
        ELSE self

\* The operations in traversal order, as <<pathKey, methodKey, operation>>:
\* for (pathKey in paths) for (methodKey in paths[pathKey]).  for..in over
\* null or undefined runs no iteration.
RECURSIVE TraversalFrom(_, _)
TraversalFrom(paths, i) ==
    IF i > Len(paths.val) THEN <<>>
    ELSE LET pathKey == paths.val[i][1]
             item == paths.val[i][2]
             here == IF item.type = "object"
                     THEN [j \in 1..Len(item.val) |->
                             <<pathKey, item.val[j][1], item.val[j][2]>>]
                     ELSE <<>>
         IN  here \o TraversalFrom(paths, i + 1)

\* if (swaggerDoc?.paths) { ... }
Traversal(doc) ==
    LET paths == OptGet(doc, K_paths)
    IN  IF Truthy(paths) /\ paths.type = "object"
        THEN TraversalFrom(paths, 1)
        ELSE <<>>

\* A faulty variant of the operation link whose description does not fall
\* back to the summary (operation.description || '')
OperationLinkNoSummary(basePath, pathKey, methodKey, operation) ==
    Obj(<< <<K_href, Str(stripTrailingSlash(basePath).val \o pathKey)>>,
           <<K_method, Str(toUpperCase(methodKey))>>,
           <<K_description, Or(GetProp(operation, K_description), Str(<<>>))>>,
           <<K_operationId, GetProp(operation, K_operationId)>> >>)

\* The object literal assigned to linksObject[operation.operationId]
OperationLink(basePath, pathKey, methodKey, operation) ==
    Obj(<< <<K_href, Str(stripTrailingSlash(basePath).val \o pathKey)>>,
           <<K_method, Str(toUpperCase(methodKey))>>,
           <<K_description, Or(Or(GetProp(operation, K_description),
                                  GetProp(operation, K_summary)),
                               Str(<<>>))>>,
           <<K_operationId, GetProp(operation, K_operationId)>> >>)

\* operation.tags && operation.tags.length > 0
HasTags(operation) ==
    LET tags == GetProp(operation, K_tags)
    IN  Truthy(tags) /\ tags.type = "array" /\ Len(tags.val) > 0

\* A faulty variant of the body of the inner loop that passes over a null
\* entry (operation?.operationId)
AddOperationSkippingNull(linksObject, basePath, pathKey, methodKey, operation) ==
    IF IsNullish(operation) THEN Returned(linksObject)
    ELSE LET operationId == GetProp(operation, K_operationId)
         IN  IF ~Truthy(operationId) THEN Returned(linksObject)
             ELSE LET key == operationId.val
                      stored == Put(linksObject, key,
                                    OperationLink(basePath, pathKey,
                                                  methodKey, operation))
                  IN  IF HasTags(operation) /\ HasOwn(stored, key)
                      THEN Returned(Put(stored, key,
                                        Put(Get(stored, key), K_tags,
                                            GetProp(operation, K_tags))))
                      ELSE Returned(stored)

\* The body of the inner loop for one operation: operation.operationId
\* throws a TypeError when the entry is null; an entry without a truthy
\* operationId is skipped; linksObject[operationId].tags = operation.tags
\* writes to whatever linksObject[operationId] reads, which is the object
\* just stored unless operationId is '__proto__'.
AddOperation(linksObject, basePath, pathKey, methodKey, operation) ==
    IF IsNullish(operation) THEN Thrown("TypeError")
    ELSE LET operationId == GetProp(operation, K_operationId)
         IN  IF ~Truthy(operationId) THEN Returned(linksObject)
             ELSE LET key == operationId.val
                      stored == Put(linksObject, key,
                                    OperationLink(basePath, pathKey,
                                                  methodKey, operation))
                  IN  IF HasTags(operation) /\ HasOwn(stored, key)
                      THEN Returned(Put(stored, key,
                                        Put(Get(stored, key), K_tags,
                                            GetProp(operation, K_tags))))
                      ELSE Returned(stored)

\* The two nested loops, from the i-th operation of the traversal on
RECURSIVE AddOperationsFrom(_, _, _, _)
AddOperationsFrom(linksObject, basePath, ops, i) ==
    IF i > Len(ops) THEN Returned(linksObject)
    ELSE LET r == AddOperation(linksObject, basePath,
                               ops[i][1], ops[i][2], ops[i][3])
         IN  IF r.threw THEN r
             ELSE AddOperationsFrom(r.value, basePath, ops, i + 1)

\* A faulty variant of the try block that keeps failing once a request has
\* failed (a failure flag kept at module level)
TryBlockSticky(loaded, e) ==
    IF loaded.threw \/ logged # <<>>
    THEN [threw |-> TRUE, error |-> "TypeError", basePath |-> Undefined,
          built |-> Undefined, merged |-> Undefined, linksObject |-> Undefined]
    ELSE LET doc == loaded.value
             bp == ResolveBasePath(doc)
         IN  IF bp.threw
             THEN [threw |-> TRUE, error |-> bp.error, basePath |-> Undefined,
                   built |-> Undefined, merged |-> Undefined,
                   linksObject |-> Undefined]
             ELSE LET built == SelfExplicit(doc, bp.value, e)
                      merged == MergeInfo(built, doc)
                      links == AddOperationsFrom(Obj(<< <<K_self, merged>> >>),
                                                 bp.value, Traversal(doc), 1)
                  IN  [threw |-> links.threw, error |-> links.error,
                       basePath |-> bp.value, built |-> built,
                       merged |-> merged, linksObject |-> links.value]

\* The try block up to and including the loops: the locals it computes, or
\* the error it throws.
TryBlock(loaded, e) ==
    IF loaded.threw
    THEN [threw |-> TRUE, error |-> loaded.error, basePath |-> Undefined,
          built |-> Undefined, merged |-> Undefined, linksObject |-> Undefined]
    ELSE LET doc == loaded.value
             bp == ResolveBasePath(doc)
         IN  IF bp.threw
             THEN [threw |-> TRUE, error |-> bp.error, basePath |-> Undefined,
                   built |-> Undefined, merged |-> Undefined,
                   linksObject |-> Undefined]
             ELSE LET built == SelfExplicit(doc, bp.value, e)
                      merged == MergeInfo(built, doc)
                      links == AddOperationsFrom(Obj(<< <<K_self, merged>> >>),
                                                 bp.value, Traversal(doc), 1)
                  IN  [threw |-> links.threw, error |-> links.error,
                       basePath |-> bp.value, built |-> built,
                       merged |-> merged, linksObject |-> links.value]

\* A response object on which nothing has been set or sent yet
FreshResponse ==
    [statusCode |-> 200, headers |-> Obj(<<>>), body |-> Undefined, ended |-> 0]

\* A faulty variant of the success response that sets no Content-Type
SuccessResponseNoHeader(linksObject) ==
    [statusCode |-> 200,
     headers |-> FreshResponse.headers,
     body |-> JSONstringify(Obj(<< <<K_links, linksObject>> >>)),
     ended |-> FreshResponse.ended + 1]

\* res.statusCode = 200; res.setHeader(...); res.end(JSON.stringify(...))
SuccessResponse(linksObject) ==
    [statusCode |-> 200,
     headers |-> Put(FreshResponse.headers, K_ContentType,
                     Str(S_applicationJson)),
     body |-> JSONstringify(Obj(<< <<K_links, linksObject>> >>)),
     ended |-> FreshResponse.ended + 1]

\* A faulty variant of the catch block that does not set res.statusCode
ErrorResponseStatusKept ==
    [statusCode |-> FreshResponse.statusCode,
     headers |-> Put(FreshResponse.headers, K_ContentType,
                     Str(S_applicationJson)),
     body |-> JSONstringify(Obj(<< <<K_error, Str(S_InternalServerError)>>,
                                   <<K_message, Str(S_Unable)>> >>)),
     ended |-> FreshResponse.ended + 1]

\* The response written by the catch block
ErrorResponse ==
    [statusCode |-> 500,
     headers |-> Put(FreshResponse.headers, K_ContentType,
                     Str(S_applicationJson)),
     body |-> JSONstringify(Obj(<< <<K_error, Str(S_InternalServerError)>>,
                                   <<K_message, Str(S_Unable)>> >>)),
     ended |-> FreshResponse.ended + 1]

\* A faulty variant of the report that leaves the stack out
ErrorReportNoStack(error) ==
    [message |-> S_EntrypointError, error |-> error, stack |-> "none"]

\* logger.error('Entrypoint error', {error: error.message, stack: error.stack})
ErrorReport(error) ==
    [message |-> S_EntrypointError, error |-> error, stack |-> error]

\* The calls the handler makes on its collaborators, in program order
SuccessEffects ==
    <<"getSwaggerDoc", "res.setHeader", "res.end">>

ErrorEffects ==
    <<"getSwaggerDoc", "logger.error", "res.setHeader", "res.end">>

NoFrame ==
    [basePath |-> Undefined, built |-> Undefined, merged |-> Undefined,
     effects |-> <<>>]

\* The input of one request and the answer given to it
Answer(doc, raises, e, response) ==
    [doc |-> doc, raises |-> raises, env |-> e, req |-> req,
     statusCode |-> response.statusCode, body |-> response.body]

\* A faulty variant of the handler that stores the base path it resolved in
\* the specification object (swaggerDoc.basePath = basePath)
EntrypointStoringBasePath ==
    /\ served < MaxRequests
    /\ LET t == TryBlock(getSwaggerDoc, env)
       IN  /\ frame' = [basePath |-> t.basePath, built |-> t.built,
                        merged |-> t.merged,
                        effects |-> IF t.threw THEN ErrorEffects
                                    ELSE SuccessEffects]
           /\ IF t.threw
              THEN /\ logged' = Append(logged, ErrorReport(t.error))
                   /\ res' = ErrorResponse
                   /\ swaggerDoc' = swaggerDoc
              ELSE /\ logged' = logged
                   /\ res' = SuccessResponse(t.linksObject)
                   /\ swaggerDoc' = Put(swaggerDoc, K_basePath, t.basePath)
    /\ served' = served + 1
    /\ history' = history \cup {Answer(swaggerDoc, loaderRaises, env, res')}
    /\ UNCHANGED <<loaderRaises, env, req>>

\* One request: the handler runs to completion on a fresh response object.
Entrypoint ==
    /\ served < MaxRequests
    /\ LET t == TryBlock(getSwaggerDoc, env)
       IN  /\ frame' = [basePath |-> t.basePath, built |-> t.built,
                        merged |-> t.merged,
                        effects |-> IF t.threw THEN ErrorEffects
                                    ELSE SuccessEffects]
           /\ IF t.threw
              THEN /\ logged' = Append(logged, ErrorReport(t.error))
                   /\ res' = ErrorResponse
              ELSE /\ logged' = logged
                   /\ res' = SuccessResponse(t.linksObject)
    /\ served' = served + 1
    /\ history' = history \cup {Answer(swaggerDoc, loaderRaises, env, res')}
    /\ UNCHANGED <<swaggerDoc, loaderRaises, env, req>>

----------------------------------------------------------------------------
\* The documents, environments and loader outcomes the model explores

RECURSIVE SeqsOfLen(_, _)
SeqsOfLen(S, n) ==
    IF n = 0 THEN {<<>>}
    ELSE {Append(s, x) : s \in SeqsOfLen(S, n - 1), x \in S}

SeqsUpTo(S, n) ==
    UNION {SeqsOfLen(S, k) : k \in 0..n}

\* Property lists whose keys are pairwise distinct
DistinctKeys(props) ==
    \A i, j \in 1..Len(props) : i # j => props[i][1] # props[j][1]

\* An object literal: the listed properties, without those left undefined
Literal(props) ==
    LET Present(p) == p[2].type # "undefined"
    IN  Obj(SelectSeq(props, Present))

\* servers[0].url
Urls ==
    SeqsUpTo({"/", "a"}, MaxUrlLen)

ServerObjects ==
    {Obj(<<>>)} \cup {Obj(<< <<K_url, Str(u)>> >>) : u \in Urls}

LaterServer ==
    Obj(<< <<K_url, Str(<<"/", "c">>)>> >>)

ServersChoices ==
    {Undefined, Arr(<<>>)}
      \cup {Arr(<<s>>) : s \in ServerObjects}
      \cup {Arr(<<s, LaterServer>>) :
              s \in {Obj(<<>>), Obj(<< <<K_url, Str(<<>>)>> >>)}}

BasePathChoices ==
    {Undefined, Str(<<>>), Str(<<"/", "b">>), Str(<<"/", "b", "/">>)}

\* 'constructor'
K_constructor ==
    <<"c", "o", "n", "s", "t", "r", "u", "c", "t", "o", "r">>

\* 'x-ext', an extension key of info
K_x_ext ==
    <<"x", "-", "e", "x", "t">>

InfoKeys ==
    {K_status, K_description, K_version, K_x_ext, K_constructor}

InfoValues ==
    {Str(<<"X">>), Str(<<>>), Null}

InfoChoices ==
    {Undefined, Null}
      \cup {Obj(p) : p \in {q \in SeqsUpTo(InfoKeys \X InfoValues, MaxInfoKeys) :
                              DistinctKeys(q)}}

TagChoices ==
    {Undefined} \cup {Arr(t) : t \in SeqsUpTo({Str(<<"t">>), Str(<<"u">>)}, MaxTags)}

OperationIds ==
    {Undefined, Str(<<>>), Str(<<"a">>), Str(<<"b">>), Str(K_self),
     Str(<<"1">>), Str(K_proto)}

Operation(operationId, description, summary, tags) ==
    Literal(<< <<K_operationId, operationId>>, <<K_description, description>>,
               <<K_summary, summary>>, <<K_tags, tags>> >>)

OneTag ==
    Arr(<<Str(<<"t">>)>>)

\* A path-level parameters list, which is not an operation
ParametersList ==
    Arr(<<Obj(<< <<K_name, Str(<<"p">>)>> >>)>>)

\* Operations that differ in their operationId
OperationsById ==
    {Operation(id, Undefined, Undefined, tags) :
        id \in OperationIds, tags \in {Undefined, OneTag}}

\* Operations that differ in description, summary and tags
OperationsByDetail ==
    {Operation(Str(<<"a">>), d, s, tags) :
        d \in {Undefined, Str(<<>>), Str(<<"d">>)},
        s \in {Undefined, Str(<<>>), Str(<<"s">>)},
        tags \in TagChoices}

Operations ==
    OperationsById \cup OperationsByDetail \cup {Null, ParametersList}

\* The operations combined with one another under several methods and paths
OperationsFew ==
    {Operation(Str(<<"a">>), Undefined, Undefined, OneTag),
     Operation(Str(<<"a">>), Str(<<"d">>), Undefined, Undefined),
     Operation(Str(<<"b">>), Undefined, Str(<<"s">>), Undefined),
     Operation(Str(K_self), Undefined, Undefined, Undefined),
     Operation(Str(<<"1">>), Undefined, Undefined, Undefined),
     Operation(Str(K_proto), Undefined, Undefined, OneTag),
     Operation(Undefined, Undefined, Undefined, OneTag),
     Null}

MethodKeys ==
    {<<"g", "e", "t">>, <<"G", "e", "t">>, <<"G", "E", "T">>,
     <<"p", "o", "s", "t">>}

\* The method keys of a path with several methods, in mapping order
MethodOrder ==
    <<<<"g", "e", "t">>, <<"p", "o", "s", "t">>, <<"G", "E", "T">>,
      <<"G", "e", "t">>>>

\* The path keys of a specification with several paths, in mapping order
PathOrder ==
    <<<<"/", "f">>, <<"/", "g">>, <<"/">>, <<"/", "f", "/">>>>

\* The object whose i-th property has the i-th key of keys and the i-th
\* value of values
Zip(keys, values) ==
    Obj([i \in 1..Len(values) |-> <<keys[i], values[i]>>])

\* The value under one path key: null, or a mapping from method key to entry
PathItems ==
    {Null}
      \cup {Obj(<< <<k, op>> >>) : k \in MethodKeys, op \in Operations}
      \cup {Zip(MethodOrder, ops) : ops \in SeqsUpTo(OperationsFew, MaxMethods)}

PathItemsFew ==
    {Obj(<< <<<<"g", "e", "t">>, op>> >>) : op \in OperationsFew}

PathsChoices ==
    {Undefined, Null}
      \cup {Obj(<< <<<<"/", "f">>, item>> >>) : item \in PathItems}
      \cup {Zip(PathOrder, items) : items \in SeqsUpTo(PathItemsFew, MaxPaths)}

EnvValues ==
    {Undefined, Str(<<>>), Str(<<"n">>)}

EnvChoices ==
    [COMPONENT_NAME : EnvValues, RELEASE_NAME : EnvValues]

\* Small sets, combined with the full set of choices of one other field
BaseFew ==
    { <<Undefined, Undefined>>,
      <<Arr(<<Obj(<< <<K_url, Str(<<"/">>)>> >>)>>), Undefined>>,
      <<Arr(<<Obj(<< <<K_url, Str(<<"/", "a", "/">>)>> >>)>>), Undefined>> }

ServersFew ==
    {Undefined, Arr(<<Obj(<< <<K_url, Str(<<"/">>)>> >>)>>)}

InfoFew ==
    {Undefined, Obj(<< <<K_x_ext, Str(<<"X">>)>> >>)}

PathsFew ==
    {Undefined,
     Obj(<< <<<<"/", "f">>,
              Obj(<< <<<<"g", "e", "t">>,
                       Operation(Str(<<"a">>), Undefined, Undefined, OneTag)>> >>)>> >>),
     Obj(<< <<<<"/", "f">>,
              Obj(<< <<<<"g", "e", "t">>,
                       Operation(Str(K_self), Undefined, Undefined, Undefined)>> >>)>> >>)}

\* info objects with a title and a version
InfoTitled ==
    {Obj(<< <<K_title, t>>, <<K_version, v>> >>) :
        t \in InfoValues, v \in InfoValues}

EnvUnset ==
    [COMPONENT_NAME |-> Undefined, RELEASE_NAME |-> Undefined]

Document(servers, basePath, info, paths) ==
    Literal(<< <<K_servers, servers>>, <<K_basePath, basePath>>,
               <<K_info, info>>, <<K_paths, paths>> >>)

\* Request objects: the handler is handed the request and never reads it
GetRoot ==
    [method |-> Str(<<"G", "E", "T">>), url |-> Str(<<"/">>)]

Requests ==
    {GetRoot, [method |-> Str(<<"P", "O", "S", "T">>), url |-> Str(<<"/", "x">>)]}

Config(doc, raises, e) ==
    [doc |-> doc, raises |-> raises, env |-> e, req |-> GetRoot]

Configs ==
    {Config(Document(s, b, i, p), FALSE, EnvUnset) :
        s \in ServersChoices, b \in BasePathChoices, i \in InfoFew, p \in PathsFew}
      \cup {Config(Document(Undefined, Undefined, i, p), FALSE, EnvUnset) :
              i \in InfoChoices, p \in PathsFew}
      \cup {Config(Document(s, Undefined, Undefined, p), FALSE, EnvUnset) :
              s \in ServersFew, p \in PathsChoices}
      \cup {Config(Document(sb[1], sb[2], i, p), FALSE, e) :
              sb \in BaseFew, i \in InfoFew, p \in PathsFew, e \in EnvChoices}
      \cup {Config(d, r, e) :
              d \in {Undefined, Null, Document(Undefined, Undefined, Undefined, Undefined)},
              r \in BOOLEAN, e \in EnvChoices}
      \cup {Config(Document(Undefined, Undefined, i, Undefined), FALSE, EnvUnset) :
              i \in InfoTitled}
      \cup {[Config(Document(Undefined, Undefined, Undefined, p), r, EnvUnset)
                EXCEPT !.req = q] :
              p \in PathsFew, r \in BOOLEAN, q \in Requests}

Init ==
    /\ \E c \in Configs :
          /\ swaggerDoc = c.doc
          /\ loaderRaises = c.raises
          /\ env = c.env
          /\ req = c.req
    /\ res = FreshResponse
    /\ logged = <<>>
    /\ frame = NoFrame
    /\ served = 0
    /\ history = {}

Next ==
    Entrypoint

Spec ==
    Init /\ [][Next]_vars

\* The inputs among which the environment of the handler moves between two
\* requests: the loader's document is replaced or the loader starts to raise,
\* the process environment is changed, another request arrives
ReloadDocument ==
    Document(Arr(<<Obj(<< <<K_url, Str(<<"/", "a">>)>> >>)>>), Undefined,
              Obj(<< <<K_title, Str(<<"T">>)>> >>),
              Obj(<< <<<<"/", "f">>,
                       Obj(<< <<<<"g", "e", "t">>,
                                Operation(Str(<<"a">>), Undefined, Undefined,
                                          OneTag)>> >>)>> >>))

EnvSet ==
    [COMPONENT_NAME |-> Str(<<"n">>), RELEASE_NAME |-> Str(<<"n">>)]

ReloadInputs ==
    {Config(Null, FALSE, EnvUnset),
     Config(Document(Undefined, Undefined, Undefined, Undefined), FALSE,
            EnvUnset),
     Config(ReloadDocument, FALSE, EnvUnset),
     Config(ReloadDocument, FALSE, EnvSet),
     Config(ReloadDocument, TRUE, EnvUnset)}

ReloadConfigs ==
    {[c EXCEPT !.req = q] : c \in ReloadInputs, q \in Requests}

\* Between two requests the inputs of the handler change
Reload ==
    /\ \E c \in ReloadConfigs :
          /\ <<c.doc, c.raises, c.env, c.req>>
                # <<swaggerDoc, loaderRaises, env, req>>
          /\ swaggerDoc' = c.doc
          /\ loaderRaises' = c.raises
          /\ env' = c.env
          /\ req' = c.req
    /\ UNCHANGED <<res, logged, frame, served, history>>

InitReload ==
    /\ \E c \in ReloadConfigs :
          /\ swaggerDoc = c.doc
          /\ loaderRaises = c.raises
          /\ env = c.env
          /\ req = c.req
    /\ res = FreshResponse
    /\ logged = <<>>
    /\ frame = NoFrame
    /\ served = 0
    /\ history = {}

NextReload ==
    \/ Entrypoint
    \/ Reload

SpecReload ==
    InitReload /\ [][NextReload]_vars


----------------------------------------------------------------------------
\* The handler statement by statement.  frame holds the program counter pc,
\* the loop index i and the locals of the running invocation; the two nested
\* loops over paths and methods are followed along Traversal.

IdleFrame ==
    [pc |-> "idle", i |-> 0, linksObject |-> Undefined, error |-> "none",
     basePath |-> Undefined, built |-> Undefined, merged |-> Undefined,
     effects |-> <<>>]

\* One iteration of the merge loop, for the i-th key of info
MergeInfoKey(self, info, i) ==
    LET infoKey == info.val[i][1]
    IN  IF ~Truthy(Get(self, infoKey))
        THEN Put(self, infoKey, Get(info, infoKey))
        ELSE self

\* The keys the merge loop runs over: none when info is not truthy
InfoLength(doc) ==
    LET info == OptGet(doc, K_info)
    IN  IF Truthy(info) /\ info.type = "object" THEN Len(info.val) ELSE 0

\* The request arrives: the loader is called, the base path and the identity
\* are resolved and the explicit self entry is built
Begin ==
    /\ frame.pc = "idle"
    /\ served < MaxRequests
    /\ res' = FreshResponse
    /\ LET loaded == getSwaggerDoc
           bp == IF loaded.threw THEN loaded ELSE ResolveBasePath(loaded.value)
       IN  IF bp.threw
           THEN frame' = [IdleFrame EXCEPT !.pc = "catch", !.error = bp.error]
           ELSE LET built == SelfExplicit(swaggerDoc, bp.value, env)
                IN  frame' = [IdleFrame EXCEPT
                                 !.pc = "info", !.i = 1,
                                 !.basePath = bp.value, !.built = built,
                                 !.linksObject = Obj(<< <<K_self, built>> >>)]
    /\ UNCHANGED <<swaggerDoc, loaderRaises, env, req, logged, served, history>>

\* One iteration of the merge loop, or its end
MergeStep ==
    /\ frame.pc = "info"
    /\ IF frame.i > InfoLength(swaggerDoc)
       THEN frame' = [frame EXCEPT !.pc = "paths", !.i = 1,
                                   !.merged = Get(frame.linksObject, K_self)]
       ELSE frame' = [frame EXCEPT
                         !.i = frame.i + 1,
                         !.linksObject =
                             Put(frame.linksObject, K_self,
                                 MergeInfoKey(Get(frame.linksObject, K_self),
                                              OptGet(swaggerDoc, K_info),
                                              frame.i))]
    /\ UNCHANGED <<swaggerDoc, loaderRaises, env, req, res, logged, served,
                   history>>

\* A faulty variant of the loop over the operations that never advances
OperationStepStuck ==
    /\ frame.pc = "paths"
    /\ LET ops == Traversal(swaggerDoc)
       IN  IF frame.i > Len(ops)
           THEN frame' = [frame EXCEPT !.pc = "respond"]
           ELSE LET r == AddOperation(frame.linksObject, frame.basePath,
                                      ops[frame.i][1], ops[frame.i][2],
                                      ops[frame.i][3])
                IN  IF r.threw
                    THEN frame' = [frame EXCEPT !.pc = "catch",
                                                !.error = r.error]
                    ELSE frame' = [frame EXCEPT !.linksObject = r.value]
    /\ UNCHANGED <<swaggerDoc, loaderRaises, env, req, res, logged, served,
                   history>>

\* One iteration of the loops over paths and methods, or their end
OperationStep ==
    /\ frame.pc = "paths"
    /\ LET ops == Traversal(swaggerDoc)
       IN  IF frame.i > Len(ops)
           THEN frame' = [frame EXCEPT !.pc = "respond"]
           ELSE LET r == AddOperation(frame.linksObject, frame.basePath,
                                      ops[frame.i][1], ops[frame.i][2],
                                      ops[frame.i][3])
                IN  IF r.threw
                    THEN frame' = [frame EXCEPT !.pc = "catch",
                                                !.error = r.error]
                    ELSE frame' = [frame EXCEPT !.i = frame.i + 1,
                                                !.linksObject = r.value]
    /\ UNCHANGED <<swaggerDoc, loaderRaises, env, req, res, logged, served,
                   history>>

\* The success response is written and the handler returns
Respond ==
    /\ frame.pc = "respond"
    /\ res' = SuccessResponse(frame.linksObject)
    /\ frame' = [frame EXCEPT !.pc = "idle", !.effects = SuccessEffects]
    /\ served' = served + 1
    /\ history' = history \cup {Answer(swaggerDoc, loaderRaises, env, res')}
    /\ UNCHANGED <<swaggerDoc, loaderRaises, env, req, logged>>

\* The catch block: the error is reported, the error response is written and
\* the handler returns
Catch ==
    /\ frame.pc = "catch"
    /\ logged' = Append(logged, ErrorReport(frame.error))
    /\ res' = ErrorResponse
    /\ frame' = [frame EXCEPT !.pc = "idle", !.effects = ErrorEffects]
    /\ served' = served + 1
    /\ history' = history \cup {Answer(swaggerDoc, loaderRaises, env, res')}
    /\ UNCHANGED <<swaggerDoc, loaderRaises, env, req>>

\* The specifications the handler is followed on step by step
StepInfos ==
    {Undefined, Null, Obj(<< <<K_x_ext, Str(<<"X">>)>> >>),
     Obj(<< <<K_description, Null>>, <<K_x_ext, Str(<<"X">>)>> >>)}

ItemOne ==
    Obj(<< <<<<"g", "e", "t">>,
             Operation(Str(<<"a">>), Undefined, Undefined, OneTag)>> >>)

ItemWithNull ==
    Zip(MethodOrder,
        <<Operation(Str(<<"b">>), Undefined, Str(<<"s">>), Undefined), Null>>)

ItemTwo ==
    Zip(MethodOrder,
        <<Operation(Undefined, Undefined, Undefined, OneTag),
          Operation(Str(<<"a">>), Str(<<"d">>), Undefined, Undefined)>>)

StepPaths ==
    {Undefined,
     Zip(PathOrder, <<ItemOne>>),
     Zip(PathOrder, <<ItemOne, ItemWithNull>>),
     Zip(PathOrder, <<ItemTwo, Null, ItemOne>>)}

StepConfigs ==
    {Config(Document(Undefined, Undefined, i, p), FALSE, EnvUnset) :
        i \in StepInfos, p \in StepPaths}
      \cup {Config(Null, FALSE, EnvUnset),
            Config(Document(Undefined, Undefined, Undefined, Undefined), TRUE,
                   EnvUnset)}

InitSteps ==
    /\ \E c \in StepConfigs :
          /\ swaggerDoc = c.doc
          /\ loaderRaises = c.raises
          /\ env = c.env
          /\ req = c.req
    /\ res = FreshResponse
    /\ logged = <<>>
    /\ frame = IdleFrame
    /\ served = 0
    /\ history = {}

\* The statements of a running invocation
Running ==
    \/ MergeStep
    \/ OperationStep
    \/ Respond
    \/ Catch

NextSteps ==
    \/ Begin
    \/ Running

\* The handler is synchronous: once called it runs on until it returns
SpecSteps ==
    InitSteps /\ [][NextSteps]_vars /\ WF_vars(Running)
----------------------------------------------------------------------------
\* Vocabulary of the properties

\* The handler has answered the current request
Responded ==
    res.ended = 1

Succeeded ==
    Responded /\ res.statusCode = 200

Failed ==
    Responded /\ res.statusCode = 500

\* The value under _links in the body of a success response
Links ==
    Get(res.body, K_links)

LinkNames ==
    {Links.val[i][1] : i \in 1..Len(Links.val)}

SelfLink ==
    Get(Links, K_self)

KeySet(o) ==
    {o.val[i][1] : i \in 1..Len(o.val)}

ExplicitKeys ==
    {K_href, K_id, K_name, K_status, K_version, K_title, K_description,
     K_swagger_ui, K_openapi}

IsNonEmptyString(v) ==
    v.type = "string" /\ v.val # <<>>

\* The specification is an object (not null, not undefined) and was loaded
Loaded ==
    ~loaderRaises /\ swaggerDoc.type = "object"

\* The entries under the method keys of all paths, in traversal order
Entries ==
    IF Loaded THEN Traversal(swaggerDoc) ELSE <<>>

\* The entries that are operations carrying a non-empty operationId
Qualifying ==
    {i \in 1..Len(Entries) :
        /\ Entries[i][3].type = "object"
        /\ IsNonEmptyString(Get(Entries[i][3], K_operationId))}

QualifyingIds ==
    {Get(Entries[i][3], K_operationId).val : i \in Qualifying}

OperationIdAt(i) ==
    Get(Entries[i][3], K_operationId).val

\* The names under _links that are operationIds of qualifying operations
OperationLinkNames ==
    QualifyingIds \cap LinkNames

\* The last qualifying operation, in traversal order, whose operationId is n
LastWith(n) ==
    CHOOSE i \in Qualifying :
        /\ OperationIdAt(i) = n
        /\ \A j \in Qualifying : OperationIdAt(j) = n => j <= i

\* The first qualifying operation, in traversal order, whose operationId is n
FirstWith(n) ==
    CHOOSE i \in Qualifying :
        /\ OperationIdAt(i) = n
        /\ \A j \in Qualifying : OperationIdAt(j) = n => i <= j

\* The place of the link named n among the keys of _links, as serialized
PositionOf(n) ==
    CHOOSE i \in 1..Len(Links.val) : Links.val[i][1] = n

\* The operationIds carried by two or more qualifying operations
SharedIds ==
    {n \in QualifyingIds :
        Cardinality({i \in Qualifying : OperationIdAt(i) = n}) >= 2}

\* description, falling back to summary, then to ''
DescriptionOf(operation) ==
    IF IsNonEmptyString(Get(operation, K_description))
    THEN Get(operation, K_description)
    ELSE IF IsNonEmptyString(Get(operation, K_summary))
         THEN Get(operation, K_summary)
         ELSE Str(<<>>)

\* The operation's tags are a non-empty sequence
Tagged(operation) ==
    Get(operation, K_tags).type = "array" /\ Len(Get(operation, K_tags).val) > 0

\* No entry under a method key is null
NoNullEntry ==
    \A i \in 1..Len(Entries) : Entries[i][3].type # "null"

\* A TypeError is thrown while the document is being built: the specification
\* is null or undefined, or an entry under a method key is null
BuildRaises ==
    ~loaderRaises /\ (IsNullish(swaggerDoc) \/ ~NoNullEntry)

\* The document {"error":"Internal Server Error","message":"Unable to
\* generate entrypoint response"}
FixedErrorBody ==
    Obj(<< <<K_error, Str(<<"I", "n", "t", "e", "r", "n", "a", "l", " ",
                            "S", "e", "r", "v", "e", "r", " ",
                            "E", "r", "r", "o", "r">>)>>,
           <<K_message, Str(<<"U", "n", "a", "b", "l", "e", " ", "t", "o", " ",
                              "g", "e", "n", "e", "r", "a", "t", "e", " ",
                              "e", "n", "t", "r", "y", "p", "o", "i", "n", "t",
                              " ", "r", "e", "s", "p", "o", "n", "s", "e">>)>> >>)

\* The error caught by the handler when the request fails
CaughtError ==
    IF loaderRaises THEN "LoaderError" ELSE "TypeError"

\* The place of the first call named c in the sequence of calls
CallIndex(calls, c) ==
    CHOOSE i \in 1..Len(calls) :
        calls[i] = c /\ \A j \in 1..(i - 1) : calls[j] # c

\* The field k of info when it is a non-empty string, else the literal d
InfoOrDefault(k, d) ==
    LET info == Get(swaggerDoc, K_info)
    IN  IF info.type = "object" /\ IsNonEmptyString(Get(info, k))
        THEN Get(info, k)
        ELSE Str(d)

\* s contains '//'
HasDoubledSeparator(s) ==
    \E i \in 1..(Len(s) - 1) : s[i] = "/" /\ s[i + 1] = "/"

\* s without one separator at its end
WithoutTrailingSeparator(s) ==
    IF Len(s) > 0 /\ s[Len(s)] = "/" THEN SubSeq(s, 1, Len(s) - 1) ELSE s

IsPrefix(t, s) ==
    Len(t) <= Len(s) /\ SubSeq(s, 1, Len(t)) = t

IsSuffix(t, s) ==
    Len(t) <= Len(s) /\ SubSeq(s, Len(s) - Len(t) + 1, Len(s)) = t

----------------------------------------------------------------------------
\* C1: base-path resolution.  In every success response for a loaded
\* specification object, self.href equals servers[0].url when that is a
\* non-empty string; equals basePath when servers is missing and basePath is
\* a non-empty string; equals the hard default when both are missing.
C1_BasePathResolution ==
    Succeeded /\ Loaded =>
        LET servers == Get(swaggerDoc, K_servers)
            legacy == Get(swaggerDoc, K_basePath)
            href == Get(SelfLink, K_href)
        IN  /\ ( /\ servers.type = "array"
                 /\ Len(servers.val) > 0
                 /\ servers.val[1].type = "object"
                 /\ IsNonEmptyString(Get(servers.val[1], K_url)) )
                  => href = Get(servers.val[1], K_url)
            /\ ( /\ ~HasOwn(swaggerDoc, K_servers)
                 /\ IsNonEmptyString(legacy) )
                  => href = legacy
            /\ ( /\ ~HasOwn(swaggerDoc, K_servers)
                 /\ ~HasOwn(swaggerDoc, K_basePath) )
                  => href = Str(DefaultBasePath)

\* C2: when the loader returns null or undefined without raising, the
\* response has status 200, _links holds only the self entry, built from the
\* default base path, and no error report is logged.
C2_AbsentSpecification ==
    Responded /\ ~loaderRaises /\ IsNullish(swaggerDoc) =>
        /\ res.statusCode = 200
        /\ LinkNames = {K_self}
        /\ Get(SelfLink, K_href) = Str(DefaultBasePath)
        /\ logged = <<>>

\* C3: a specification object answers status 200 whichever of servers,
\* basePath, info and paths are missing (the entries under the method keys
\* being objects or lists, not null); with {} and no identity in the
\* environment the body holds only _links, _links holds only self, and self
\* has the default base path and the default literals.
C3_MissingFieldsTolerated ==
    /\ Responded /\ Loaded /\ NoNullEntry => res.statusCode = 200
    /\ Responded /\ ~loaderRaises /\ swaggerDoc = Obj(<<>>) /\ env = EnvUnset =>
          /\ res.statusCode = 200
          /\ KeySet(res.body) = {K_links}
          /\ LinkNames = {K_self}
          /\ Get(SelfLink, K_href) = Str(DefaultBasePath)
          /\ Get(SelfLink, K_id) = Str(DefaultReleaseName)
          /\ Get(SelfLink, K_name) = Str(DefaultComponentName)
          /\ Get(SelfLink, K_status) = Str(S_running)
          /\ Get(SelfLink, K_version) = Str(DefaultVersion)
          /\ Get(SelfLink, K_title) = Str(DefaultTitle)
          /\ Get(SelfLink, K_description) = Str(<<>>)

\* The empty specification {} has been answered with status 200
C3_Witness ==
    /\ Succeeded
    /\ ~loaderRaises
    /\ swaggerDoc = Obj(<<>>)
    /\ env = EnvUnset

\* C4: in every success response the link names under _links are exactly
\* self and the operationIds of the operations that carry a non-empty
\* operationId, each naming one link.
C4_LinkNames ==
    Succeeded =>
        /\ LinkNames = {K_self} \cup QualifyingIds
        /\ Cardinality(LinkNames) = Len(Links.val)

\* C5: in every success response _links.self contains href, id, name,
\* status, version, title, description, swagger-ui and openapi, and its
\* status is 'running'.
C5_SelfEntry ==
    Succeeded =>
        /\ ExplicitKeys \subseteq KeySet(SelfLink)
        /\ Get(SelfLink, K_status) = Str(S_running)

\* C6: the info merge loop changes none of the nine explicit self-link
\* fields: after the loop each of them has the value it was given when the
\* explicit field set was built.
C6_ExplicitFieldsKept ==
    Responded /\ frame.built.type = "object" =>
        \A k \in ExplicitKeys : Get(frame.merged, k) = Get(frame.built, k)

\* C7: every key of info that is not an explicit self-link field appears in
\* _links.self with the value it has in info, and _links.self has no key
\* other than the explicit fields and the keys of info.
C7_InfoMerged ==
    Succeeded /\ Loaded =>
        LET info == Get(swaggerDoc, K_info)
            infoKeys == IF info.type = "object" THEN KeySet(info) ELSE {}
        IN  /\ \A k \in infoKeys \ ExplicitKeys :
                  HasOwn(SelfLink, k) /\ Get(SelfLink, k) = Get(info, k)
            /\ KeySet(SelfLink) \subseteq ExplicitKeys \cup infoKeys

\* C8: the tooling links swagger-ui and openapi of _links.self contain no
\* doubled path separator, whatever the resolved base path.
C8_ToolingLinks ==
    Succeeded =>
        \A k \in {K_swagger_ui, K_openapi} :
            HasOwn(SelfLink, k) /\ Get(SelfLink, k).type = "string"
                => ~HasDoubledSeparator(Get(SelfLink, k).val)

\* C9: the href of an operation link whose path key begins with a separator
\* has no doubled separator where the base path and the path key are joined.
C9_JoinPoint ==
    Succeeded =>
        \A n \in QualifyingIds \cap LinkNames :
            LET href == Get(Get(Links, n), K_href).val
            IN  \E i \in Qualifying :
                    LET pathKey == Entries[i][1]
                        join == Len(href) - Len(pathKey)
                    IN  /\ Get(Entries[i][3], K_operationId).val = n
                        /\ IsSuffix(pathKey, href)
                        /\ (pathKey # <<>> /\ pathKey[1] = "/" /\ join >= 1)
                              => href[join] # "/"

\* C10: an operation link has exactly the fields href, method, description
\* and operationId, plus tags if and only if the operation's tags are a
\* non-empty sequence, which it then carries unchanged; its href is the base
\* path without trailing separator followed by the path key.
C10_OperationLink ==
    Succeeded =>
        \A n \in QualifyingIds \cap LinkNames :
            LET link == Get(Links, n)
            IN  \E i \in Qualifying :
                    LET operation == Entries[i][3]
                        tags == Get(operation, K_tags)
                        tagged == tags.type = "array" /\ Len(tags.val) > 0
                    IN  /\ Get(operation, K_operationId).val = n
                        /\ KeySet(link) =
                              {K_href, K_method, K_description, K_operationId}
                                \cup (IF tagged THEN {K_tags} ELSE {})
                        /\ tagged => Get(link, K_tags) = tags
                        /\ Get(link, K_operationId) = Str(n)
                        /\ Get(link, K_href) =
                              Str(WithoutTrailingSeparator(frame.basePath.val)
                                    \o Entries[i][1])

\* C11: the method field of every operation link is the uppercased form of
\* the method key of its operation: get, Get and GET all give 'GET', post
\* gives 'POST', and no lower-case letter remains.
C11_MethodUppercased ==
    Succeeded =>
        \A n \in OperationLinkNames :
            LET methodKey == Entries[LastWith(n)][2]
                method == Get(Get(Links, n), K_method)
            IN  /\ method.type = "string"
                /\ Len(method.val) = Len(methodKey)
                /\ \A j \in 1..Len(method.val) : method.val[j] \notin LowerChars
                /\ methodKey \in {<<"g", "e", "t">>, <<"G", "e", "t">>,
                                  <<"G", "E", "T">>}
                      => method = Str(<<"G", "E", "T">>)
                /\ methodKey = <<"p", "o", "s", "t">>
                      => method = Str(<<"P", "O", "S", "T">>)

\* A link has been emitted for an operation under the method key 'Get'
C11_Witness ==
    /\ Succeeded
    /\ \E n \in OperationLinkNames :
          /\ Entries[LastWith(n)][2] = <<"G", "e", "t">>
          /\ Get(Get(Links, n), K_method) = Str(<<"G", "E", "T">>)

\* C12: the description field of every operation link is present; it is the
\* operation's description when that is a non-empty string, otherwise the
\* operation's summary when that is a non-empty string, otherwise ''.
C12_DescriptionFallback ==
    Succeeded =>
        \A n \in OperationLinkNames :
            LET operation == Entries[LastWith(n)][3]
                description == Get(operation, K_description)
                summary == Get(operation, K_summary)
                link == Get(Links, n)
            IN  /\ HasOwn(link, K_description)
                /\ IsNonEmptyString(description)
                      => Get(link, K_description) = description
                /\ ~IsNonEmptyString(description) /\ IsNonEmptyString(summary)
                      => Get(link, K_description) = summary
                /\ ~IsNonEmptyString(description) /\ ~IsNonEmptyString(summary)
                      => Get(link, K_description) = Str(<<>>)

\* A link has been emitted for an operation with an empty description and a
\* non-empty summary, and carries the summary
C12_Witness ==
    /\ Succeeded
    /\ \E n \in OperationLinkNames :
          /\ Get(Entries[LastWith(n)][3], K_description) = Str(<<>>)
          /\ IsNonEmptyString(Get(Entries[LastWith(n)][3], K_summary))
          /\ Get(Get(Links, n), K_description)
                = Get(Entries[LastWith(n)][3], K_summary)

\* C13: when two or more operations share an operationId, the output holds
\* one link under that name, and its href, method, description and tags are
\* those of the operation met last in traversal order; nothing of an
\* earlier operation, its tags included, remains in the link.
C13_LastOperationWins ==
    Succeeded =>
        \A n \in SharedIds :
            /\ Cardinality({i \in 1..Len(Links.val) : Links.val[i][1] = n}) = 1
            /\ LET last == Entries[LastWith(n)]
                   link == Get(Links, n)
               IN  /\ KeySet(link) =
                         {K_href, K_method, K_description, K_operationId}
                           \cup (IF Tagged(last[3]) THEN {K_tags} ELSE {})
                   /\ IsSuffix(last[1], Get(link, K_href).val)
                   /\ Len(Get(link, K_method).val) = Len(last[2])
                   /\ last[2] = <<"p", "o", "s", "t">>
                         <=> Get(link, K_method) = Str(<<"P", "O", "S", "T">>)
                   /\ Get(link, K_description) = DescriptionOf(last[3])
                   /\ Tagged(last[3]) => Get(link, K_tags) = Get(last[3], K_tags)

\* C14: in the serialized success document the first key of _links is self,
\* and the operation links follow in traversal order: a link whose operation
\* is met earlier in the traversal comes before one whose operation is met
\* later.
C14_KeyOrder ==
    Succeeded =>
        /\ Links.val[1][1] = K_self
        /\ \A n, m \in OperationLinkNames \ {K_self} :
              FirstWith(n) < FirstWith(m) => PositionOf(n) < PositionOf(m)

\* C15: whenever the specification loader raises, or a TypeError is thrown
\* while the document is being built, the handler returns normally with a
\* response whose status is 500 and whose body is exactly the fixed error
\* document; a request that has been served has always been answered.
C15_ExceptionsCaught ==
    served > 0 =>
        /\ Responded
        /\ (loaderRaises \/ BuildRaises) =>
              /\ res.statusCode = 500
              /\ res.body = FixedErrorBody

\* A served request whose document contains a null entry under a method key
C15_Witness ==
    /\ served > 0
    /\ Loaded
    /\ ~NoNullEntry
    /\ Failed

\* C16: each invocation of the handler sends exactly one error report to the
\* logger when it answers with the 500 error body and none when it answers
\* with the 200 links document; the report carries the message and the stack
\* of the error caught, and logger.error is called before res.end.
C16_OneReportPerFailure ==
    [][served' = served + 1 =>
          IF res'.statusCode = 500
          THEN /\ Len(logged') = Len(logged) + 1
               /\ SubSeq(logged', 1, Len(logged)) = logged
               /\ logged'[Len(logged')].error = CaughtError
               /\ logged'[Len(logged')].stack = CaughtError
               /\ CallIndex(frame'.effects, "logger.error")
                     < CallIndex(frame'.effects, "res.end")
          ELSE /\ logged' = logged
               /\ \A i \in 1..Len(frame'.effects) :
                     frame'.effects[i] # "logger.error"]_vars

\* Two requests have failed and two reports have been sent
C16_Witness ==
    /\ served = 2
    /\ Failed
    /\ Len(logged) = 2

\* C17: every invocation ends the response exactly once, with either status
\* 200 and the complete links document (self and a link for every operation
\* that qualifies) or status 500 and the fixed error body, never a mix of the
\* two.
C17_NoPartialOutput ==
    served > 0 =>
        /\ res.ended = 1
        /\ \/ /\ res.statusCode = 200
              /\ KeySet(res.body) = {K_links}
              /\ {K_self} \cup QualifyingIds \subseteq LinkNames
           \/ /\ res.statusCode = 500
              /\ res.body = FixedErrorBody

\* C18: an invocation of the handler, successful or failed, leaves the
\* specification object held by the loader equal to what it was before the
\* invocation.
C18_SpecificationNotMutated ==
    [][served' # served => swaggerDoc' = swaggerDoc]_vars

\* A request has been answered from a specification with info and with a
\* tagged operation
C18_Witness ==
    /\ served > 0
    /\ Succeeded
    /\ Get(swaggerDoc, K_info).type = "object"
    /\ \E i \in Qualifying : Tagged(Entries[i][3])

C20_IdentityResolved ==
    Succeeded =>
        /\ Get(SelfLink, K_name) =
              IF IsNonEmptyString(env.COMPONENT_NAME) THEN env.COMPONENT_NAME
              ELSE Str(<<"g", "e", "o", "g", "r", "a", "p", "h", "i", "c",
                         "a", "d", "d", "r", "e", "s", "s">>)
        /\ Get(SelfLink, K_id) =
              IF IsNonEmptyString(env.RELEASE_NAME) THEN env.RELEASE_NAME
              ELSE Str(<<"t", "m", "f", "6", "7", "3">>)
        /\ IsNonEmptyString(Get(SelfLink, K_name))
        /\ IsNonEmptyString(Get(SelfLink, K_id))

\* C21: in every success response self.href is the resolved base path
\* unchanged, self.status is 'running', and self.version, self.title and
\* self.description are the fields of info of the same name when these are
\* non-empty strings, else '4.0.1', 'Geographic Address Management API'
\* and ''.
C21_ExplicitSelfValues ==
    Succeeded =>
        /\ Get(SelfLink, K_href) = frame.basePath
        /\ Get(SelfLink, K_status) = Str(<<"r", "u", "n", "n", "i", "n", "g">>)
        /\ Get(SelfLink, K_version) =
              InfoOrDefault(K_version, <<"4", ".", "0", ".", "1">>)
        /\ Get(SelfLink, K_title) =
              InfoOrDefault(K_title,
                  <<"G", "e", "o", "g", "r", "a", "p", "h", "i", "c", " ",
                    "A", "d", "d", "r", "e", "s", "s", " ",
                    "M", "a", "n", "a", "g", "e", "m", "e", "n", "t", " ",
                    "A", "P", "I">>)
        /\ Get(SelfLink, K_description) = InfoOrDefault(K_description, <<>>)

\* C22: a success response has status 200, Content-Type application/json
\* and a body that is a mapping with exactly one top-level key, _links,
\* whose value is a mapping; a failure response has Content-Type
\* application/json too.
C22_ResponseEnvelope ==
    served > 0 =>
        /\ res.statusCode \in {200, 500}
        /\ KeySet(res.headers) = {<<"C", "o", "n", "t", "e", "n", "t", "-",
                                    "T", "y", "p", "e">>}
        /\ res.headers.val[1][2] =
              Str(<<"a", "p", "p", "l", "i", "c", "a", "t", "i", "o", "n", "/",
                    "j", "s", "o", "n">>)
        /\ res.statusCode = 200 =>
              /\ res.body.type = "object"
              /\ Len(res.body.val) = 1
              /\ res.body.val[1][1] = <<"_", "l", "i", "n", "k", "s">>
              /\ res.body.val[1][2].type = "object"

\* A success response with operation links has been sent
C22_Witness ==
    /\ served > 0
    /\ Succeeded
    /\ Cardinality(LinkNames) >= 2

\* C23: in every success response the tooling links of self are the
\* resolved base path without a trailing separator followed by '/api-docs'
\* (swagger-ui) and by '/openapi' (openapi), and self.href without its
\* trailing separator is a prefix of both tooling links and of the href of
\* every operation link.
C23_ToolingUnderBasePath ==
    Succeeded =>
        LET base == WithoutTrailingSeparator(frame.basePath.val)
            stem == WithoutTrailingSeparator(Get(SelfLink, K_href).val)
        IN  /\ Get(SelfLink, K_swagger_ui) =
                  Str(base \o <<"/", "a", "p", "i", "-", "d", "o", "c", "s">>)
            /\ Get(SelfLink, K_openapi) =
                  Str(base \o <<"/", "o", "p", "e", "n", "a", "p", "i">>)
            /\ IsPrefix(stem, Get(SelfLink, K_swagger_ui).val)
            /\ IsPrefix(stem, Get(SelfLink, K_openapi).val)
            /\ \A n \in LinkNames \ {K_self} :
                  IsPrefix(stem, Get(Get(Links, n), K_href).val)

\* C24: an entry under paths that cannot be named (an operation without an
\* operationId or with an empty one, a path whose method mapping is empty or
\* null, an entry that is not an operation) contributes no link and raises
\* no error: when no entry under a method key is null the response has
\* status 200, every link other than self is named by a qualifying
\* operation, and every qualifying operation has its link.
C24_UnnamedEntriesSkipped ==
    Responded /\ Loaded /\ NoNullEntry =>
        /\ res.statusCode = 200
        /\ logged = <<>>
        /\ LinkNames \ {K_self} \subseteq QualifyingIds
        /\ QualifyingIds \subseteq LinkNames

\* C25: the base path resolved for a specification object is a non-empty
\* string: the url of the first entry of servers when servers is a
\* non-empty sequence and that url is a non-empty string; otherwise basePath
\* when it is a non-empty string; otherwise the hard default.  Later entries
\* of servers are not consulted.
C25_OrderedFallback ==
    Responded /\ Loaded =>
        LET servers == Get(swaggerDoc, K_servers)
            legacy == Get(swaggerDoc, K_basePath)
            first == IF servers.type = "array" /\ Len(servers.val) > 0
                     THEN servers.val[1] ELSE Undefined
            url == IF first.type = "object" THEN Get(first, K_url)
                   ELSE Undefined
        IN  /\ IsNonEmptyString(frame.basePath)
            /\ frame.basePath =
                  IF IsNonEmptyString(url) THEN url
                  ELSE IF IsNonEmptyString(legacy) THEN legacy
                  ELSE Str(<<"/", "t", "m", "f", "-", "a", "p", "i", "/",
                             "g", "e", "o", "g", "r", "a", "p", "h", "i", "c",
                             "A", "d", "d", "r", "e", "s", "s",
                             "M", "a", "n", "a", "g", "e", "m", "e", "n", "t",
                             "/", "v", "4">>)

\* The first of two servers has an empty url and the base path resolved is
\* the legacy basePath
C25_Witness ==
    /\ Responded
    /\ Loaded
    /\ Get(swaggerDoc, K_servers).type = "array"
    /\ Len(Get(swaggerDoc, K_servers).val) = 2
    /\ Get(Get(swaggerDoc, K_servers).val[1], K_url) = Str(<<>>)
    /\ IsNonEmptyString(Get(swaggerDoc, K_basePath))
    /\ frame.basePath = Get(swaggerDoc, K_basePath)

\* C26: when an entry under a method key of some path is null the request
\* fails as a whole: the response has status 500 and the fixed error body,
\* which holds no _links and so none of the links built for the operations
\* met earlier in the traversal, and each such request has sent one error
\* report, of a TypeError.
C26_NullEntryFailsRequest ==
    Responded /\ Loaded /\ ~NoNullEntry =>
        /\ res.statusCode = 500
        /\ res.body = FixedErrorBody
        /\ ~HasOwn(res.body, K_links)
        /\ \A n \in QualifyingIds : ~HasOwn(res.body, n)
        /\ Len(logged) = served
        /\ \A i \in 1..Len(logged) : logged[i].error = "TypeError"

\* A request has failed on a null entry met after a qualifying operation
C26_Witness ==
    /\ Responded
    /\ Loaded
    /\ \E i \in Qualifying : \E j \in 1..Len(Entries) :
          i < j /\ Entries[j][3].type = "null"
    /\ Failed
    /\ Len(logged) = 1

C28_NoCarryOver ==
    [][served' = served + 1 =>
          /\ (res'.statusCode = 500) <=> (loaderRaises \/ BuildRaises)
          /\ res'.statusCode = 200 =>
                /\ LinkNames' = {K_self} \cup QualifyingIds
                /\ Get(SelfLink, K_name)' =
                      IF IsNonEmptyString(env.COMPONENT_NAME)
                      THEN env.COMPONENT_NAME
                      ELSE Str(DefaultComponentName)
                /\ Get(SelfLink, K_id)' =
                      IF IsNonEmptyString(env.RELEASE_NAME)
                      THEN env.RELEASE_NAME
                      ELSE Str(DefaultReleaseName)
                /\ Get(SelfLink, K_href)' = frame'.basePath
                /\ logged' = logged
          /\ res'.statusCode = 500 =>
                /\ res'.body = FixedErrorBody
                /\ Len(logged') = Len(logged) + 1]_vars

\* After a failed request, a request on a specification with an operation
\* has been answered with status 200 and the operation's link
C28_Witness ==
    /\ served >= 2
    /\ logged # <<>>
    /\ \E a \in history : a.statusCode = 500
    /\ Succeeded
    /\ Answer(swaggerDoc, loaderRaises, env, res) \in history
    /\ QualifyingIds # {}
    /\ QualifyingIds \subseteq LinkNames

====
